---- MODULE Spec2Model ----
(***************************************************************************)
(* A model of the lookup-argument core of jolt: the LT/EQ subtables and    *)
(* the LT instruction (src/src/jolt/lt.rs), and the JoltInstruction        *)
(* helpers and SubtableIndices (src/jolt-core/src/jolt/instruction/mod.rs).*)
(* Each group of operations has its own specification over the shared      *)
(* variables; the variables of the other groups stay at their idle value.  *)
(***************************************************************************)
EXTENDS Integers, Sequences, FiniteSets, TLC

VARIABLES
    \* SubtableIndices: two bit-sets and the last operation applied
    a, b, prevA, prevB, lastOp,
    \* subtables: the subtable kind, the point, evaluate_mle's value, the
    \* materialized row read, and the position of the run
    subtable, point, mleOut, rowOut, mlePc,
    \* slice_values: the SubtableIndices of subtables(C, M), vals, the result
    svTables, svVals, svOut,
    \* operand_chunks: operands(), C, log_M, the result
    ocOperands, ocC, ocLogM, ocOut,
    \* LT instruction: the operand words, the subtable entries looked up,
    \* the result of combine_lookups and of g_poly_degree, the position
    ltX, ltY, ltVals, ltOut, ltDeg, ltPc,
    \* evaluation proof: the lookup indices, the evaluation point, the label
    \* of the verifier's transcript, the prover, the proof in flight, whether
    \* it was altered on the way, the verifier
    nz, r, verify_label, prover, proof, tampered, verifier

idxVars == <<a, b, prevA, prevB, lastOp>>
mleVars == <<subtable, point, mleOut, rowOut, mlePc>>
svVars == <<svTables, svVals, svOut>>
ocVars == <<ocOperands, ocC, ocLogM, ocOut>>
ltVars == <<ltX, ltY, ltVals, ltOut, ltDeg, ltPc>>
epVars == <<nz, r, verify_label, prover, proof, tampered, verifier>>
vars == <<idxVars, mleVars, svVars, ocVars, ltVars, epVars>>

\* the result of a call not made yet
NotCalled == [status |-> "none", value |-> 0]

\* the idle values of each group's variables
IdxIdle ==
    /\ a = <<>> /\ b = <<>> /\ prevA = <<>> /\ prevB = <<>> /\ lastOp = "idle"

MleIdle ==
    /\ subtable = "none" /\ point = <<>> /\ mleOut = "none" /\ rowOut = "none"
    /\ mlePc = "idle"

SvIdle == svTables = <<>> /\ svVals = <<>> /\ svOut = [status |-> "idle", slices |-> <<>>]

LtIdle ==
    /\ ltX = <<>> /\ ltY = <<>> /\ ltVals = <<>> /\ ltOut = NotCalled
    /\ ltDeg = NotCalled /\ ltPc = "idle"

NoProof == [claim |-> 0, polys |-> <<>>, point |-> <<>>, evals |-> <<>>, E |-> <<>>]

NoChecks == [challenges |-> FALSE, chain |-> FALSE, final |-> FALSE, memory |-> FALSE]

EpIdle ==
    /\ nz = <<>> /\ r = <<>> /\ verify_label = "none"
    /\ prover = [state |-> "idle", E |-> <<>>, claim |-> 0, polys |-> <<>>,
                 challenges |-> <<>>]
    /\ proof = NoProof
    /\ tampered = FALSE
    /\ verifier = [state |-> "idle", checks |-> NoChecks]

OcIdle ==
    /\ ocOperands = <<>> /\ ocC = 0 /\ ocLogM = 0
    /\ ocOut = [status |-> "idle", chunks |-> <<>>]

(***************************************************************************)
(* Helpers                                                                 *)
(***************************************************************************)
Range(lo, hi) == {k \in lo..(hi - 1) : TRUE}

RECURSIVE Pow2(_)
Pow2(n) == IF n = 0 THEN 1 ELSE 2 * Pow2(n - 1)

(***************************************************************************)
(* The field F: PrimeField.  The scalar field of the source (about 2^252)  *)
(* is scaled to a small prime; every operation reduces modulo it.          *)
(***************************************************************************)
FieldModulus == 11

F == 0..(FieldModulus - 1)

FAdd(x, y) == (x + y) % FieldModulus
FSub(x, y) == (x - y) % FieldModulus
FMul(x, y) == (x * y) % FieldModulus
\* F::from(n: u64)
FFrom(n) == n % FieldModulus
FZero == 0
FOne == 1
\* (c as u64) of a bool
BoolToU64(c) == IF c THEN 1 ELSE 0

(***************************************************************************)
(* Subtables (lt.rs 60-140)                                                *)
(***************************************************************************)
\* ark_std::log2 of a power of two
RECURSIVE log2(_)
log2(n) == IF n <= 1 THEN 0 ELSE 1 + log2((n + 1) \div 2)

\* utils::split_bits(item, num_bits): (high chunk, low chunk) of num_bits each
split_bits(item, num_bits) ==
    <<(item \div Pow2(num_bits)) % Pow2(num_bits), item % Pow2(num_bits)>>

\* the row index whose bits are p, most significant first
RECURSIVE bits_to_index(_)
bits_to_index(p) ==
    IF p = <<>> THEN 0 ELSE 2 * bits_to_index(SubSeq(p, 1, Len(p) - 1)) + p[Len(p)]

LT_dimensions == 8
LT_memory_size == Pow2(16)
EQ_dimensions == 8
EQ_memory_size == Pow2(16)

\* LTSubtable::materialize
LT_materialize ==
    LET bits_per_operand == log2(LT_memory_size) \div 2
    IN  [idx \in 0..(LT_memory_size - 1) |->
            LET s == split_bits(idx, bits_per_operand)
            IN  FFrom(BoolToU64(s[1] < s[2]))]

\* EQSubtable::materialize
EQ_materialize ==
    LET bits_per_operand == log2(EQ_memory_size) \div 2
    IN  [idx \in 0..(EQ_memory_size - 1) |->
            LET s == split_bits(idx, bits_per_operand)
            IN  FFrom(BoolToU64(s[1] = s[2]))]

\* the per-bit equality kernel 1 - x - y + 2xy
EqKernel(x, y) == FAdd(FSub(FSub(FOne, x), y), FMul(FMul(FFrom(2), x), y))

\* the loop of LTSubtable::evaluate_mle from i on
RECURSIVE LT_loop(_, _, _, _, _)
LT_loop(x, y, i, result, eq_term) ==
    IF i > Len(x) THEN result
    ELSE LT_loop(x, y, i + 1,
                 FAdd(result, FMul(FMul(FSub(FOne, x[i]), y[i]), eq_term)),
                 FMul(eq_term, EqKernel(x[i], y[i])))

\* a mutation: x and y exchanged in the less-than term
RECURSIVE LT_loop_swapped(_, _, _, _, _)
LT_loop_swapped(x, y, i, result, eq_term) ==
    IF i > Len(x) THEN result
    ELSE LT_loop_swapped(x, y, i + 1,
                 FAdd(result, FMul(FMul(FSub(FOne, y[i]), x[i]), eq_term)),
                 FMul(eq_term, EqKernel(x[i], y[i])))

LT_evaluate_mle_swapped(pt) ==
    LET h == Len(pt) \div 2
    IN  LT_loop_swapped(SubSeq(pt, 1, h), SubSeq(pt, h + 1, Len(pt)), 1, FZero, FOne)

\* LTSubtable::evaluate_mle
LT_evaluate_mle(pt) ==
    LET h == Len(pt) \div 2
    IN  LT_loop(SubSeq(pt, 1, h), SubSeq(pt, h + 1, Len(pt)), 1, FZero, FOne)

\* the loop of EQSubtable::evaluate_mle from i on
RECURSIVE EQ_loop(_, _, _, _)
EQ_loop(x, y, i, eq_term) ==
    IF i > Len(x) THEN eq_term
    ELSE EQ_loop(x, y, i + 1, FMul(eq_term, EqKernel(x[i], y[i])))

\* a mutation: the last bit position is left out of the product
EQ_evaluate_mle_short(pt) ==
    LET h == Len(pt) \div 2
    IN  IF h = 0 THEN FOne
        ELSE EQ_loop(SubSeq(pt, 1, h - 1), SubSeq(pt, h + 1, Len(pt) - 1), 1, FOne)

\* EQSubtable::evaluate_mle
EQ_evaluate_mle(pt) ==
    LET h == Len(pt) \div 2
    IN  EQ_loop(SubSeq(pt, 1, h), SubSeq(pt, h + 1, Len(pt)), 1, FOne)

evaluate_mle(kind, pt) ==
    IF kind = "LT" THEN LT_evaluate_mle(pt) ELSE EQ_evaluate_mle(pt)

materialize(kind) == IF kind = "LT" THEN LT_materialize ELSE EQ_materialize

memory_size(kind) == IF kind = "LT" THEN LT_memory_size ELSE EQ_memory_size

\* Boolean points of every even length up to log2(M)
BoolPoints ==
    UNION {[1..(2 * h) -> {0, 1}] : h \in 0..(log2(LT_memory_size) \div 2)}

MleInit ==
    /\ IdxIdle /\ SvIdle /\ OcIdle /\ LtIdle /\ EpIdle
    /\ subtable \in {"LT", "EQ"}
    /\ point \in BoolPoints
    /\ mleOut = "none"
    /\ rowOut = "none"
    /\ mlePc = "start"

\* subtable.evaluate_mle(&point)
EvaluateMle ==
    /\ mlePc = "start"
    /\ mleOut' = evaluate_mle(subtable, point)
    /\ mlePc' = "evaluated"
    /\ UNCHANGED <<subtable, point, rowOut, idxVars, svVars, ocVars, ltVars, epVars>>

\* subtable.materialize()[bits_to_index(point)], for a point that names a row
ReadRow ==
    /\ mlePc = "evaluated"
    /\ Pow2(Len(point)) = memory_size(subtable)
    /\ rowOut' = materialize(subtable)[bits_to_index(point)]
    /\ mlePc' = "done"
    /\ UNCHANGED <<subtable, point, mleOut, idxVars, svVars, ocVars, ltVars, epVars>>

MleNext == EvaluateMle \/ ReadRow

SpecMle == MleInit /\ [][MleNext]_vars

\* the two sub-operands a point encodes, as unsigned integers
LeftOf(pt) == bits_to_index(SubSeq(pt, 1, Len(pt) \div 2))
RightOf(pt) == bits_to_index(SubSeq(pt, Len(pt) \div 2 + 1, Len(pt)))

\* C1: LTSubtable::evaluate_mle on a Boolean point is 1 if x < y and 0
\* otherwise, and equals the row of LTSubtable::materialize() the point names.
LtMleAgreesWithTable ==
    subtable = "LT" =>
        /\ mlePc \in {"evaluated", "done"} =>
              mleOut = (IF LeftOf(point) < RightOf(point) THEN 1 ELSE 0)
        /\ mlePc = "done" => mleOut = rowOut

\* a row of the LT table with x < y decided below the most significant bit
LtMleWitness ==
    /\ subtable = "LT" /\ mlePc = "done" /\ mleOut = 1 /\ rowOut = 1
    /\ point[1] = 1 /\ point[Len(point) \div 2 + 1] = 1
    /\ LeftOf(point) + 1 < RightOf(point)

\* C2: EQSubtable::evaluate_mle on a Boolean point is 1 if x and y are
\* bit-wise equal and 0 otherwise, and equals the row of
\* EQSubtable::materialize() the point names.
EqMleAgreesWithTable ==
    subtable = "EQ" =>
        /\ mlePc \in {"evaluated", "done"} =>
              mleOut = (IF \A k \in 1..(Len(point) \div 2) :
                                point[k] = point[Len(point) \div 2 + k]
                        THEN 1 ELSE 0)
        /\ mlePc = "done" => mleOut = rowOut

\* a row of the EQ table with equal, non-zero sub-operands
EqMleWitness ==
    /\ subtable = "EQ" /\ mlePc = "done" /\ mleOut = 1 /\ rowOut = 1
    /\ LeftOf(point) > 1


(***************************************************************************)
(* SubtableIndices (mod.rs 80-122): a wrapper of fixedbitset::FixedBitSet. *)
(* A FixedBitSet is its length in bits and the bits: a sequence of         *)
(* BOOLEAN, bit k at position k + 1.                                       *)
(***************************************************************************)
MaxPos == 3      \* chunk positions and capacities are drawn from 0..MaxPos

\* FixedBitSet::grow: longer only, the new bits are 0
grow(bs, bits) ==
    IF bits > Len(bs) THEN [k \in 1..bits |-> IF k <= Len(bs) THEN bs[k] ELSE FALSE]
    ELSE bs

\* FixedBitSet::put / insert of a bit within the length
put(bs, bit) == [bs EXCEPT ![bit + 1] = TRUE]

\* SubtableIndices::with_capacity
with_capacity(capacity) == [k \in 1..capacity |-> FALSE]

\* From<usize>: FixedBitSet::new() then grow_and_insert(index)
from_index(index) == put(grow(<<>>, index + 1), index)

\* From<Range<usize>>: FixedBitSet::from_iter(range), which extends the empty
\* set key by key: grow to key + 1 when key >= len, then put
RECURSIVE extend(_, _, _)
extend(bs, lo, hi) ==
    IF lo >= hi THEN bs
    ELSE extend(put(IF lo >= Len(bs) THEN grow(bs, lo + 1) ELSE bs, lo), lo + 1, hi)

from_range(lo, hi) == extend(<<>>, lo, hi)

\* a mutation of union_with that forgets to grow: bits of other beyond self's
\* length are dropped
union_with_nogrow(self, other) ==
    [k \in 1..Len(self) |-> self[k] \/ (k <= Len(other) /\ other[k])]

\* SubtableIndices::union_with: FixedBitSet::union_with grows self to other's
\* length, then ors the blocks pairwise
union_with(self, other) ==
    LET grown == IF Len(other) >= Len(self) THEN grow(self, Len(other)) ELSE self
    IN  [k \in 1..Len(grown) |-> grown[k] \/ (k <= Len(other) /\ other[k])]

\* SubtableIndices::contains: false beyond the length
contains(bs, index) == index < Len(bs) /\ bs[index + 1]

\* SubtableIndices::len: count_ones(..)
RECURSIVE count_ones(_, _)
count_ones(bs, k) ==
    IF k > Len(bs) THEN 0 ELSE (IF bs[k] THEN 1 ELSE 0) + count_ones(bs, k + 1)

len(bs) == count_ones(bs, 1)

\* SubtableIndices::iter: ones(), the set positions in increasing order
RECURSIVE ones(_, _)
ones(bs, k) ==
    IF k > Len(bs) THEN <<>>
    ELSE (IF bs[k] THEN <<k - 1>> ELSE <<>>) \o ones(bs, k + 1)

iter(bs) == ones(bs, 1)

IdxInit ==
    /\ MleIdle /\ SvIdle /\ OcIdle /\ LtIdle /\ EpIdle
    /\ a = with_capacity(0)
    /\ b = with_capacity(0)
    /\ prevA = a
    /\ prevB = b
    /\ lastOp = "init"

\* let a = SubtableIndices::with_capacity(n)   (or b)
WithCapacity ==
    \E n \in 0..(MaxPos + 1), tgt \in {"a", "b"} :
        /\ a' = IF tgt = "a" THEN with_capacity(n) ELSE a
        /\ b' = IF tgt = "b" THEN with_capacity(n) ELSE b
        /\ prevA' = <<tgt, n>>
        /\ prevB' = <<>>
        /\ lastOp' = "with_capacity"
        /\ UNCHANGED <<mleVars, svVars, ocVars, ltVars, epVars>>

\* let a = SubtableIndices::from(i)
FromIndex ==
    \E i \in 0..MaxPos, tgt \in {"a", "b"} :
        /\ a' = IF tgt = "a" THEN from_index(i) ELSE a
        /\ b' = IF tgt = "b" THEN from_index(i) ELSE b
        /\ prevA' = <<tgt, i>>
        /\ prevB' = <<>>
        /\ lastOp' = "from_index"
        /\ UNCHANGED <<mleVars, svVars, ocVars, ltVars, epVars>>

\* let a = SubtableIndices::from(lo..hi)
FromRange ==
    \E lo \in 0..(MaxPos + 1), hi \in 0..(MaxPos + 1), tgt \in {"a", "b"} :
        /\ a' = IF tgt = "a" THEN from_range(lo, hi) ELSE a
        /\ b' = IF tgt = "b" THEN from_range(lo, hi) ELSE b
        /\ prevA' = <<tgt, lo, hi>>
        /\ prevB' = <<>>
        /\ lastOp' = "from_range"
        /\ UNCHANGED <<mleVars, svVars, ocVars, ltVars, epVars>>

\* a.union_with(&b)
UnionWith ==
    /\ a' = union_with(a, b)
    /\ b' = b
    /\ prevA' = a
    /\ prevB' = b
    /\ lastOp' = "union_with"
    /\ UNCHANGED <<mleVars, svVars, ocVars, ltVars, epVars>>

IdxNext == WithCapacity \/ FromIndex \/ FromRange \/ UnionWith

SpecIndices == IdxInit /\ [][IdxNext]_vars

\* the object the last construction made
Made == IF prevA[1] = "a" THEN a ELSE b

Members(bs) == {i \in 0..(2 * MaxPos + 2) : contains(bs, i)}

ItemsOf(s) == {s[k] : k \in 1..Len(s)}

\* C10: SubtableIndices is a set of chunk positions: with_capacity(n) is
\* empty, From<usize>(i) holds exactly i, From<Range>(lo..hi) holds exactly
\* lo..hi; after a.union_with(b) a holds i iff a held i before or b holds i,
\* b is unchanged; len() is the number of positions contained, which is the
\* number of (distinct) items of iter().
SubtableIndicesIsSet ==
    /\ lastOp = "with_capacity" => Members(Made) = {} /\ len(Made) = 0
    /\ lastOp = "from_index" => Members(Made) = {prevA[2]}
    /\ lastOp = "from_range" => Members(Made) = Range(prevA[2], prevA[3])
    /\ lastOp = "union_with" =>
          /\ Members(a) = Members(prevA) \cup Members(b)
          /\ b = prevB
    /\ \A bs \in {a, b} :
          /\ len(bs) = Cardinality(Members(bs))
          /\ Len(iter(bs)) = len(bs)
          /\ ItemsOf(iter(bs)) = Members(bs)

\* a union in which b's largest member lies beyond a's capacity, and a was
\* not empty
SubtableIndicesWitness ==
    /\ lastOp = "union_with"
    /\ Members(prevA) # {}
    /\ \E i \in Members(b) : i >= Len(prevA)
    /\ Members(a) # Members(prevA)

(***************************************************************************)
(* JoltInstruction::slice_values (mod.rs 60-69)                            *)
(***************************************************************************)
MaxTables == 2   \* subtables(C, M) returns at most this many pairs
MaxVals == 5     \* vals has at most this many values

\* a panic: the call returns nothing
Panic == [status |-> "panic", slices |-> <<>>]

\* &vals[from..to], 0-based and half-open
Slice(vals, from, to) == SubSeq(vals, from + 1, to)

\* a mutation: the offset is not advanced, every slice starts at 0
RECURSIVE slice_loop_nooffset(_, _, _, _, _)
slice_loop_nooffset(tables, k, offset, slices, vals) ==
    IF k > Len(tables) THEN [panicked |-> FALSE, offset |-> offset, slices |-> slices]
    ELSE IF offset + len(tables[k]) > Len(vals)
         THEN [panicked |-> TRUE, offset |-> offset, slices |-> slices]
         ELSE slice_loop_nooffset(tables, k + 1, offset + len(tables[k]),
                         Append(slices, Slice(vals, 0, len(tables[k]))), vals)

\* the loop of slice_values from the k-th pair on; indexing vals beyond its
\* length panics
RECURSIVE slice_loop(_, _, _, _, _)
slice_loop(tables, k, offset, slices, vals) ==
    IF k > Len(tables) THEN [panicked |-> FALSE, offset |-> offset, slices |-> slices]
    ELSE IF offset + len(tables[k]) > Len(vals)
         THEN [panicked |-> TRUE, offset |-> offset, slices |-> slices]
         ELSE slice_loop(tables, k + 1, offset + len(tables[k]),
                         Append(slices, Slice(vals, offset, offset + len(tables[k]))),
                         vals)

\* a mutation: the closing assert_eq! is missing
slice_values_noassert(vals, tables) ==
    LET res == slice_loop(tables, 1, 0, <<>>, vals)
    IN  IF res.panicked THEN Panic ELSE [status |-> "ok", slices |-> res.slices]

\* slice_values: the loop, then assert_eq!(offset, vals.len())
slice_values(vals, tables) ==
    LET res == slice_loop(tables, 1, 0, <<>>, vals)
    IN  IF res.panicked \/ res.offset # Len(vals) THEN Panic
        ELSE [status |-> "ok", slices |-> res.slices]

\* the SubtableIndices an instruction's subtables(C, M) may pair a subtable with
IndexSets ==
    {from_range(lo, hi) : lo \in 0..(MaxPos + 1), hi \in 0..(MaxPos + 1)}
        \cup {with_capacity(MaxPos)}

TableLists == UNION {[1..n -> IndexSets] : n \in 0..MaxTables}

ValLists == UNION {[1..n -> {0, 1}] : n \in 0..MaxVals}

SvInit ==
    /\ IdxIdle /\ MleIdle /\ OcIdle /\ LtIdle /\ EpIdle
    /\ svTables \in TableLists
    /\ svVals \in ValLists
    /\ svOut = [status |-> "none", slices |-> <<>>]

\* instruction.slice_values(&vals, C, M)
SliceValues ==
    /\ svOut.status = "none"
    /\ svOut' = slice_values(svVals, svTables)
    /\ UNCHANGED <<svTables, svVals, idxVars, mleVars, ocVars, ltVars, epVars>>

SvNext == SliceValues

SpecSlice == SvInit /\ [][SvNext]_vars

RECURSIVE SumLen(_, _)
SumLen(tables, k) == IF k > Len(tables) THEN 0 ELSE len(tables[k]) + SumLen(tables, k + 1)

RECURSIVE Concat(_, _)
Concat(ss, k) == IF k > Len(ss) THEN <<>> ELSE ss[k] \o Concat(ss, k + 1)

\* C7: when vals has as many values as the SubtableIndices of subtables(C, M)
\* hold together, slice_values does not panic and returns one slice per
\* subtable, in order, the i-th as long as the i-th SubtableIndices, and the
\* slices concatenated are vals.
SliceValuesPartitions ==
    (svOut.status \in {"ok", "panic"} /\ Len(svVals) = SumLen(svTables, 1)) =>
        /\ svOut.status = "ok"
        /\ Len(svOut.slices) = Len(svTables)
        /\ \A i \in 1..Len(svTables) : Len(svOut.slices[i]) = len(svTables[i])
        /\ Concat(svOut.slices, 1) = svVals

\* two subtables with two or more positions each, and vals not constant
SliceValuesWitness ==
    /\ svOut.status = "ok"
    /\ Len(svTables) = 2
    /\ len(svTables[1]) >= 2 /\ len(svTables[2]) >= 2
    /\ svOut.slices[1] # svOut.slices[2]
    /\ Concat(svOut.slices, 1) = svVals

\* C8: when the length of vals differs from the sum of the SubtableIndices
\* lengths, shorter or longer, slice_values panics and returns no slices.
SliceValuesRejectsMismatch ==
    (svOut.status \in {"ok", "panic"} /\ Len(svVals) # SumLen(svTables, 1)) =>
        svOut = Panic

\* a vals longer than the subtables consume: the remainder is not dropped
SliceValuesMismatchWitness ==
    /\ svOut = Panic
    /\ Len(svTables) >= 1
    /\ SumLen(svTables, 1) >= 1
    /\ Len(svVals) > SumLen(svTables, 1)

(***************************************************************************)
(* JoltInstruction::operand_chunks (mod.rs 46-57)                          *)
(***************************************************************************)
MaxOperand == 7  \* operand words are drawn from 0..MaxOperand
MaxC == 3        \* C is drawn from 1..MaxC
MaxLogM == 5     \* log_M is drawn from 0..MaxLogM

\* x.checked_shr(shift).unwrap_or(0) of a u64
Shr(x, shift) == IF shift >= 64 THEN 0 ELSE x \div Pow2(shift)

\* utils::instruction_utils::chunk_operand(x, C, chunk_len): the C chunks of
\* chunk_len bits of x, the most significant first
chunk_operand(x, C, chunk_len) ==
    [i \in 1..C |-> Shr(x, (C - i) * chunk_len) % Pow2(chunk_len)]

\* a mutation: an odd log_M is rounded down instead of refused
operand_chunks_rounding(operands, C, log_M) ==
    [status |-> "ok",
     chunks |-> [k \in 1..Len(operands) |-> chunk_operand(operands[k], C, log_M \div 2)]]

\* operand_chunks: assert!(log_M % 2 == 0), then one chunk vector per operand
operand_chunks(operands, C, log_M) ==
    IF log_M % 2 # 0 THEN [status |-> "panic", chunks |-> <<>>]
    ELSE [status |-> "ok",
          chunks |-> [k \in 1..Len(operands) |->
                          chunk_operand(operands[k], C, log_M \div 2)]]

OcInit ==
    /\ IdxIdle /\ MleIdle /\ SvIdle /\ LtIdle /\ EpIdle
    /\ ocOperands \in [1..2 -> 0..MaxOperand]
    /\ ocC \in 1..MaxC
    /\ ocLogM \in 0..MaxLogM
    /\ ocOut = [status |-> "none", chunks |-> <<>>]

\* instruction.operand_chunks(C, log_M)
OperandChunks ==
    /\ ocOut.status = "none"
    /\ ocOut' = operand_chunks(ocOperands, ocC, ocLogM)
    /\ UNCHANGED <<ocOperands, ocC, ocLogM, idxVars, mleVars, svVars, ltVars, epVars>>

OcNext == OperandChunks

SpecChunks == OcInit /\ [][OcNext]_vars

\* C9: operand_chunks with an odd log_M fails and returns no chunk vectors;
\* with an even log_M it returns exactly two chunk vectors of C chunks, the
\* first of the first operand and the second of the second.
OperandChunksRequiresEvenLogM ==
    ocOut.status \in {"ok", "panic"} =>
        /\ ocLogM % 2 = 1 => ocOut = [status |-> "panic", chunks |-> <<>>]
        /\ ocLogM % 2 = 0 =>
              /\ ocOut.status = "ok"
              /\ Len(ocOut.chunks) = 2
              /\ \A k \in 1..2 :
                    /\ Len(ocOut.chunks[k]) = ocC
                    /\ ocOut.chunks[k] =
                           chunk_operand(ocOperands[k], ocC, ocLogM \div 2)

\* an odd log_M refused, with operands whose chunks would differ
OperandChunksWitness ==
    /\ ocOut.status = "panic" /\ ocLogM = 3 /\ ocC >= 2
    /\ ocOperands[1] # ocOperands[2]

(***************************************************************************)
(* The LT instruction (lt.rs 10-58).  A u64 operand word is held as its    *)
(* C = 8 chunks of log2(M)/2 = 8 bits, the most significant first.         *)
(***************************************************************************)
MaxChunk == 2    \* chunk values are drawn from 0..MaxChunk
MaxActive == 2   \* at most this many chunk positions are non-zero in a pair

\* LTVM::primary_poly_degree
primary_poly_degree == 4

\* the subtable kinds of LTInstruction::subtables, in its order
subtables == <<"LT", "EQ">>

dimensions(kind) == IF kind = "LT" THEN LT_dimensions ELSE EQ_dimensions

\* InstructionStrategy::num_memories: the subtables' dimensions added up
RECURSIVE num_memories_from(_)
num_memories_from(k) ==
    IF k > Len(subtables) THEN 0 ELSE dimensions(subtables[k]) + num_memories_from(k + 1)

num_memories == num_memories_from(1)

\* the loop of LTInstruction::combine_lookups from i on (i counts from 0);
\* vals[2 * i] and vals[2 * i + 1] of the source are 0-based
RECURSIVE combine_loop(_, _, _, _, _)
combine_loop(vals, C, i, sum, eq_prod) ==
    IF i >= C THEN sum
    ELSE combine_loop(vals, C, i + 1,
                      FAdd(sum, FMul(vals[2 * i + 1], eq_prod)),
                      FMul(eq_prod, vals[2 * i + 2]))

\* LTInstruction::combine_lookups
combine_lookups(vals) ==
    IF Len(vals) # num_memories THEN [status |-> "panic", value |-> 0]
    ELSE [status |-> "ok",
          value |-> combine_loop(vals, dimensions(subtables[1]), 0, FZero, FOne)]

\* LTInstruction::g_poly_degree: todo!()
g_poly_degree == [status |-> "panic", value |-> 0]

\* combine_lookups over the polynomials in vals: a polynomial is the set of
\* its monomials, a monomial the set of the (0-based) positions of vals it
\* multiplies.  Every monomial the loop builds is new and square-free, so
\* the sum is the union and the product the pairwise union.
RECURSIVE combine_poly(_, _, _, _)
combine_poly(C, i, sum, eq_prod) ==
    IF i >= C THEN sum
    ELSE combine_poly(C, i + 1,
                      sum \cup {{2 * i} \cup m : m \in eq_prod},
                      {{2 * i + 1} \cup m : m \in eq_prod})

\* the total degree of combine_lookups as a polynomial in vals
CombineDegree ==
    LET g == combine_poly(dimensions(subtables[1]), 0, {}, {{}})
    IN  CHOOSE d \in 0..num_memories :
            /\ \E m \in g : Cardinality(m) = d
            /\ \A m \in g : Cardinality(m) <= d

\* to_indices: chunk i of both operands, concatenated into a row index
to_indices(x, y) ==
    [i \in 1..Len(x) |-> x[i] * Pow2(log2(LT_memory_size) \div 2) + y[i]]

\* the materialized entries at the operands' chunk indices, concatenated in
\* the order of subtables(): each subtable's C entries in turn
RECURSIVE lookup_vals(_, _)
lookup_vals(indices, k) ==
    IF k > Len(subtables) THEN <<>>
    ELSE [i \in 1..dimensions(subtables[k]) |-> materialize(subtables[k])[indices[i]]]
             \o lookup_vals(indices, k + 1)

\* lookup_entry: x < y as unsigned integers, decided at the most significant
\* chunk in which the words differ
lookup_entry(x, y) ==
    BoolToU64(\E i \in 1..Len(x) :
                  /\ x[i] < y[i]
                  /\ \A j \in 1..(i - 1) : x[j] = y[j])

ActiveSets == {S \in SUBSET (1..LT_dimensions) : Cardinality(S) <= MaxActive}

\* the operand whose chunks at the positions S are those f gives (its
\* component which) and 0 elsewhere
Operand(S, f, which) ==
    [i \in 1..LT_dimensions |-> IF i \in S THEN f[i][which] ELSE 0]

LtInit ==
    /\ IdxIdle /\ MleIdle /\ SvIdle /\ OcIdle /\ EpIdle
    /\ \E S \in ActiveSets :
          \E f \in [S -> (0..MaxChunk) \X (0..MaxChunk)] :
              /\ \A i \in S : f[i] # <<0, 0>>
              /\ ltX = Operand(S, f, 1)
              /\ ltY = Operand(S, f, 2)
    /\ ltVals = <<>>
    /\ ltOut = NotCalled
    /\ ltDeg = NotCalled
    /\ ltPc = "start"

\* the subtable entries of the instruction's chunks are read
LookupVals ==
    /\ ltPc = "start"
    /\ ltVals' = lookup_vals(to_indices(ltX, ltY), 1)
    /\ ltPc' = "looked_up"
    /\ UNCHANGED <<ltX, ltY, ltOut, ltDeg, idxVars, mleVars, svVars, ocVars, epVars>>

\* instruction.combine_lookups(&vals)
CombineLookups ==
    /\ ltPc = "looked_up"
    /\ ltOut' = combine_lookups(ltVals)
    /\ ltPc' = "combined"
    /\ UNCHANGED <<ltX, ltY, ltVals, ltDeg, idxVars, mleVars, svVars, ocVars, epVars>>

\* instruction.g_poly_degree()
GPolyDegree ==
    /\ ltPc # "idle"
    /\ ltDeg.status = "none"
    /\ ltDeg' = g_poly_degree
    /\ UNCHANGED <<ltX, ltY, ltVals, ltOut, ltPc, idxVars, mleVars, svVars, ocVars, epVars>>

LtNext == LookupVals \/ CombineLookups \/ GPolyDegree

SpecLT == LtInit /\ [][LtNext]_vars

\* C3: combine_lookups of the materialized entries at the operands' chunk
\* indices, concatenated in the order of subtables() (the LT subtable's C
\* entries, then the EQ subtable's), is the lookup entry: 1 if x < y, else 0.
CombineLookupsIsLookupEntry ==
    ltPc = "combined" =>
        ltOut = [status |-> "ok", value |-> FFrom(lookup_entry(ltX, ltY))]

\* C6: g_poly_degree returns a value not less than the total degree of
\* combine_lookups, and primary_poly_degree is not less than that degree
\* plus one.
GPolyDegreeBoundsCombine ==
    ltDeg.status # "none" =>
        /\ ltDeg.status = "ok"
        /\ ltDeg.value >= CombineDegree
        /\ primary_poly_degree >= CombineDegree + 1

(***************************************************************************)
(* The evaluation proof (spec 4.4), driven as the test e2e drives it       *)
(* (lt.rs 178-209): from_lookup_indices, commit, prove, verify.  The       *)
(* commitment scheme and the transcript are black boxes: a commitment      *)
(* binds its columns, and a challenge is a function of the messages the    *)
(* transcript was fed.                                                     *)
(***************************************************************************)
MaxLogS == 1     \* a batch has 1..2^MaxLogS rows

\* the label of the prover's transcript, Transcript::new(b"example")
prover_label == "example"

\* the coordinates the evaluation point r is drawn from (gen_random_point)
RCoords == {2, 7}

\* the challenges a transcript may yield
Challenges == {1, 5, 10}

\* the lookup index a row repeats in its C columns (gen_indices)
RowIndices == {0, 1}

\* gen_indices: each row is vec![index; C]
Rows == {[c \in 1..LT_dimensions |-> v] : v \in RowIndices}

Batches == UNION {[1..n -> Rows] : n \in 1..Pow2(MaxLogS)}

\* DensifiedRepresentation::from_lookup_indices: the rows padded with
\* index-0 rows to the next power of two, laid out as C columns
from_lookup_indices(indices) ==
    LET s_padded == Pow2(log2(Len(indices)))
    IN  [c \in 1..LT_dimensions |->
            [row \in 1..s_padded |->
                IF row <= Len(indices) THEN indices[row][c] ELSE 0]]

\* DensifiedRepresentation::commit: binds the columns
commit(dense) == [columns |-> dense]

log_s(indices) == log2(Len(indices))

\* the subtable and the dimension (column) of memory k, the memories ordered
\* as subtables() orders them: each subtable's C memories in turn
memory_to_subtable(k) == subtables[((k - 1) \div LT_dimensions) + 1]
memory_to_dimension(k) == ((k - 1) % LT_dimensions) + 1

\* the E columns: per memory and row, the subtable's entry at the row's index
e_columns(dense) ==
    [k \in 1..num_memories |->
        [row \in 1..Len(dense[1]) |->
            materialize(memory_to_subtable(k))[dense[memory_to_dimension(k)][row]]]]

\* the multilinear extension of a column at a point, the first coordinate
\* the most significant bit of the row
RECURSIVE mle_eval(_, _)
mle_eval(col, pt) ==
    IF pt = <<>> THEN col[1]
    ELSE LET h == Len(col) \div 2
         IN  FAdd(FMul(FSub(FOne, pt[1]), mle_eval(SubSeq(col, 1, h), Tail(pt))),
                  FMul(pt[1], mle_eval(SubSeq(col, h + 1, Len(col)), Tail(pt))))

\* the equality kernel eq(rp, z) of two points of one length
RECURSIVE eq_eval(_, _)
eq_eval(rp, z) ==
    IF rp = <<>> THEN FOne
    ELSE FMul(FAdd(FMul(rp[1], z[1]), FMul(FSub(FOne, rp[1]), FSub(FOne, z[1]))),
              eq_eval(Tail(rp), Tail(z)))

\* eq(rp, z) * g(E_1(z), ..., E_k(z)), g the combine function
summand(E, rp, z) ==
    FMul(eq_eval(rp, z),
         combine_lookups([k \in 1..Len(E) |-> mle_eval(E[k], z)]).value)

\* the sum of the summand over the Boolean values of the n coordinates after z
RECURSIVE hypercube_sum(_, _, _, _)
hypercube_sum(E, rp, z, n) ==
    IF n = 0 THEN summand(E, rp, z)
    ELSE FAdd(hypercube_sum(E, rp, Append(z, 0), n - 1),
              hypercube_sum(E, rp, Append(z, 1), n - 1))

\* a round polynomial of the sumcheck: its values at 0..degree
round_poly(E, rp, bound, degree) ==
    [i \in 1..(degree + 1) |->
        hypercube_sum(E, rp, Append(bound, FFrom(i - 1)), Len(rp) - Len(bound) - 1)]

FInv(x) == CHOOSE y \in F : FMul(x, y) = FOne

\* the Lagrange basis polynomial of node i among the nodes 0..d, at x
RECURSIVE lagrange(_, _, _, _)
lagrange(i, j, d, x) ==
    IF j > d THEN FOne
    ELSE IF j = i THEN lagrange(i, j + 1, d, x)
         ELSE FMul(FMul(FSub(x, FFrom(j)), FInv(FSub(FFrom(i), FFrom(j)))),
                   lagrange(i, j + 1, d, x))

\* the polynomial of degree < Len(evals) through evals at 0, 1, ..., at x
RECURSIVE interpolate(_, _, _)
interpolate(evals, i, x) ==
    IF i > Len(evals) THEN FZero
    ELSE FAdd(FMul(evals[i], lagrange(i - 1, 0, Len(evals) - 1, x)),
              interpolate(evals, i + 1, x))

\* the verifier's sumcheck chain from round j on: each round polynomial has
\* the declared degree and sums to the running claim over {0, 1}; the next
\* claim is its value at the round's challenge.  The result is the final
\* claim, or -1 when a round fails.
RECURSIVE sumcheck_chain(_, _, _, _, _)
sumcheck_chain(claim, polys, cs, j, degree) ==
    IF j > Len(cs) THEN claim
    ELSE IF \/ j > Len(polys)
            \/ Len(polys[j]) # degree + 1
            \/ FAdd(polys[j][1], polys[j][2]) # claim
         THEN -1
         ELSE sumcheck_chain(interpolate(polys[j], 1, cs[j]), polys, cs, j + 1, degree)

\* a mutation of the verdict: the memory-consistency check is not consulted
verdict_partial(checks) ==
    IF checks.challenges /\ checks.chain /\ checks.final
    THEN "Verified" ELSE "Rejected"

\* verify's result: every check passed, or the proof is rejected
verdict(checks) ==
    IF checks.challenges /\ checks.chain /\ checks.final /\ checks.memory
    THEN "Verified" ELSE "Rejected"

\* the checks of verify, with cs the challenges re-derived from the
\* verifier's transcript
verify_checks(pf, commitment, rp, cs) ==
    LET final_claim == sumcheck_chain(pf.claim, pf.polys, cs, 1, primary_poly_degree)
    IN  [challenges |-> cs = pf.point,
         chain |-> Len(pf.polys) = Len(cs) /\ final_claim # -1,
         final |->
            /\ \A k \in 1..num_memories : pf.evals[k] = mle_eval(pf.E[k], cs)
            /\ final_claim = FMul(eq_eval(rp, cs), combine_lookups(pf.evals).value),
         memory |-> pf.E = e_columns(commitment.columns)]

\* the proofs that differ from pf in one field element
Altered(pf) ==
    {[pf EXCEPT !.claim = FAdd(@, FOne)]}
    \cup {[pf EXCEPT !.polys[j][i] = FAdd(@, FOne)] :
              j \in 1..Len(pf.polys), i \in {1, primary_poly_degree + 1}}
    \cup {[pf EXCEPT !.evals[k] = FAdd(@, FOne)] : k \in {1, num_memories}}
    \cup {[pf EXCEPT !.E[k][1] = FAdd(@, FOne)] : k \in {1, num_memories}}

EpInit ==
    /\ IdxIdle /\ MleIdle /\ SvIdle /\ OcIdle /\ LtIdle
    /\ nz \in Batches
    /\ r \in [1..log_s(nz) -> RCoords]
    /\ verify_label \in {prover_label, "other"}
    /\ prover = [state |-> "Unproven", E |-> <<>>, claim |-> 0, polys |-> <<>>,
                 challenges |-> <<>>]
    /\ proof = NoProof
    /\ tampered = FALSE
    /\ verifier = [state |-> "idle", checks |-> NoChecks]

\* prove, step 1: the E columns and the claimed value
ProveStart ==
    /\ prover.state = "Unproven"
    /\ LET E == e_columns(from_lookup_indices(nz))
       IN  prover' = [prover EXCEPT !.state = "Proving", !.E = E,
                         !.claim = hypercube_sum(E, r, <<>>, Len(r))]
    /\ UNCHANGED <<nz, r, verify_label, proof, tampered, verifier,
                   idxVars, mleVars, svVars, ocVars, ltVars>>

\* prove, step 2: one sumcheck round; the round polynomial is bound into the
\* transcript, which then yields the round's challenge
ProveRound ==
    /\ prover.state = "Proving"
    /\ Len(prover.polys) < Len(r)
    /\ \E c \in Challenges :
          prover' = [prover EXCEPT
                        !.polys = Append(@, round_poly(prover.E, r, prover.challenges,
                                                       primary_poly_degree)),
                        !.challenges = Append(@, c)]
    /\ UNCHANGED <<nz, r, verify_label, proof, tampered, verifier,
                   idxVars, mleVars, svVars, ocVars, ltVars>>

\* prove, steps 3 and 4: the E columns are committed and opened at the
\* challenge point; the proof is handed to the verifier
ProveFinish ==
    /\ prover.state = "Proving"
    /\ Len(prover.polys) = Len(r)
    /\ prover' = [prover EXCEPT !.state = "Proven"]
    /\ proof' = [claim |-> prover.claim, polys |-> prover.polys,
                 point |-> prover.challenges,
                 evals |-> [k \in 1..num_memories |->
                               mle_eval(prover.E[k], prover.challenges)],
                 E |-> prover.E]
    /\ verifier' = [verifier EXCEPT !.state = "Received"]
    /\ UNCHANGED <<nz, r, verify_label, tampered,
                   idxVars, mleVars, svVars, ocVars, ltVars>>

\* one field element of the proof is changed before it is verified
Tamper ==
    /\ verifier.state = "Received"
    /\ ~tampered
    /\ proof' \in Altered(proof)
    /\ tampered' = TRUE
    /\ UNCHANGED <<nz, r, verify_label, prover, verifier,
                   idxVars, mleVars, svVars, ocVars, ltVars>>

\* the transcript of the verifier before round j's challenge holds what the
\* prover's held: the same label, claim and round polynomials
SameTranscript(j) ==
    /\ verify_label = prover_label
    /\ proof.claim = prover.claim
    /\ SubSeq(proof.polys, 1, j) = SubSeq(prover.polys, 1, j)

\* proof.verify(&commitment, &r, &gens, &mut verify_transcript)
Verify ==
    /\ verifier.state = "Received"
    /\ \E cs \in [1..Len(r) -> Challenges] :
          /\ \A j \in 1..Len(r) : SameTranscript(j) => cs[j] = prover.challenges[j]
          /\ LET checks == verify_checks(proof, commit(from_lookup_indices(nz)), r, cs)
             IN  verifier' = [state |-> verdict(checks), checks |-> checks]
    /\ UNCHANGED <<nz, r, verify_label, prover, proof, tampered,
                   idxVars, mleVars, svVars, ocVars, ltVars>>

EpNext == ProveStart \/ ProveRound \/ ProveFinish \/ Tamper \/ Verify

SpecProof == EpInit /\ [][EpNext]_vars

\* C4: a proof that reaches the verifier as prove made it, with a verifier
\* transcript fed the same messages as the prover's, is accepted.
RoundTripAccepts ==
    (verifier.state \in {"Verified", "Rejected"} /\ ~tampered
        /\ verify_label = prover_label)
    => verifier.state = "Verified"

\* The state part of C5: a verify run ends in exactly one of Verified and
\* Rejected; it ends in Verified only if the re-derived
\* challenges are those the proof was opened at, the sumcheck chain, the
\* final evaluation against combine_lookups and the memory-consistency
\* check pass; a failed check ends it in Rejected.
VerifierChecksDecide ==
    /\ verifier.state \in {"idle", "Received", "Verified", "Rejected"}
    /\ verifier.state = "Verified" =>
          LET c == verify_checks(proof, commit(from_lookup_indices(nz)), r, proof.point)
          IN  /\ verifier.checks.challenges
              /\ c.chain /\ c.final /\ c.memory
    /\ (/\ verifier.state \in {"Verified", "Rejected"}
        /\ \/ ~verifier.checks.challenges \/ ~verifier.checks.chain
           \/ ~verifier.checks.final \/ ~verifier.checks.memory)
       => verifier.state = "Rejected"
    /\ verifier.state = "Rejected" =>
          \/ ~verifier.checks.challenges \/ ~verifier.checks.chain
          \/ ~verifier.checks.final \/ ~verifier.checks.memory

\* a verdict, once reached, stays, and is reached from Received only
VerifierSinglePass ==
    /\ verifier.state \in {"Verified", "Rejected"} => verifier' = verifier
    /\ (verifier.state' \in {"Verified", "Rejected"} /\ verifier.state' # verifier.state)
       => verifier.state = "Received"

\* C5: the verifier fails closed: in every state the checks decide the
\* verdict (VerifierChecksDecide), and every step is a single pass from
\* Received to a final verdict (VerifierSinglePass).
VerifierFailsClosed == []VerifierChecksDecide /\ [][VerifierSinglePass]_vars

\* a proof whose only failing check is memory consistency is rejected
VerifierFailsClosedWitness ==
    /\ verifier.state = "Rejected"
    /\ tampered
    /\ verifier.checks.challenges /\ verifier.checks.chain /\ verifier.checks.final
    /\ ~verifier.checks.memory

====
